---- MODULE Spec2Model ----
(***************************************************************************)
(* Model of juniper_codegen/src/derive_object_impl.rs: the #[gql_object]   *)
(* attribute macro impl_gql_object, which turns an impl block into the     *)
(* block itself plus a generated `impl juniper::GraphQLType`, and of the   *)
(* generated resolve_field routine.                                        *)
(*                                                                         *)
(* Identifiers are sequences of one-character strings so that the name     *)
(* casing can be computed.  Option<T> is [some |-> FALSE] or               *)
(* [some |-> TRUE, val |-> v].                                             *)
(***************************************************************************)
EXTENDS Integers, Sequences, FiniteSets, TLC

(* ------------------------------ bounds --------------------------------- *)

\* longest impl block (number of items) that is enumerated
MaxItems == 3

\* most parameters after the executor that an enumerated method declares
MaxArgs == 2

(* ------------------------------ Option --------------------------------- *)

None == [some |-> FALSE]

Some(v) == [some |-> TRUE, val |-> v]

(* ------------------------- syn syntax tree ----------------------------- *)

NoArguments == [kind |-> "none", args |-> <<>>]

AngleBracketed(args) == [kind |-> "angle", args |-> args]

PathSegment(ident, arguments) == [ident |-> ident, arguments |-> arguments]

TypePath(segments) ==
    [kind |-> "path", lifetime |-> "", segments |-> segments]

TypeReference(lifetime, elem) ==
    [kind |-> "reference", lifetime |-> lifetime, segments |-> elem.segments]

\* a type that is neither a path nor a reference, e.g. the tuple ()
TypeTuple == [kind |-> "tuple", lifetime |-> "", segments |-> <<>>]

GenericType(ty) == [kind |-> "type", ident |-> "", ty |-> ty]

Binding(ident, ty) == [kind |-> "binding", ident |-> ident, ty |-> ty]

\* a plain one-segment type such as i32 or MyContext
Named(ident) == TypePath(<<PathSegment(ident, NoArguments)>>)

Captured(pat, ty) == [kind |-> "captured", pat |-> pat, ty |-> ty]

SelfRef == [kind |-> "selfref", pat |-> <<>>, ty |-> TypeTuple]

Ignored(ty) == [kind |-> "ignored", pat |-> <<>>, ty |-> ty]

\* nested meta items of an attribute list: name = "string", name = 1, word
NameValueStr(name, value) ==
    [kind |-> "namevalue", ident |-> name, lit |-> "str", value |-> value]

NameValueInt(name) ==
    [kind |-> "namevalue", ident |-> name, lit |-> "int", value |-> "1"]

NestedWord(name) ==
    [kind |-> "word", ident |-> name, lit |-> "", value |-> ""]

\* #[ident(nested, ...)]
MetaList(ident, nested) == [meta |-> "list", ident |-> ident, nested |-> nested]

\* #[ident]
MetaWord(ident) == [meta |-> "word", ident |-> ident, nested |-> <<>>]

Method(ident, attrs, inputs, output) ==
    [kind |-> "method", ident |-> ident, attrs |-> attrs,
     inputs |-> inputs, output |-> output]

\* an associated constant; the other non-method items behave alike
ConstItem(ident) ==
    [kind |-> "const", ident |-> ident, attrs |-> <<>>,
     inputs |-> <<>>, output |-> None]

ItemImpl(attrs, self_ty, items) ==
    [kind |-> "impl", attrs |-> attrs, self_ty |-> self_ty, items |-> items]

\* an item that is not an impl block (a struct, a fn, ...)
ItemOther == [kind |-> "other", attrs |-> <<>>, self_ty |-> TypeTuple, items |-> <<>>]

(* --------------------------- panic messages ---------------------------- *)

MsgNotImpl == "#[gql_object] Can only be applied to impl blocks"

MsgContext ==
    "#[gql_object] requires context to be specified with impl MyType<Context=MyContext>"

MsgNotPath == "#[gql_object] only works with struct impls"

MsgConst == "Unexpected const item"

MsgIndex == "index out of bounds"

MsgInvalidArg == "invalid arg"

MsgArgMissing == "Argument missing - validation must have failed"

MsgNotFound == "Field {} not found on type {}"

(* --------------------------- get_attr_map ------------------------------ *)

RECURSIVE InsertAll(_, _)
\* the loop of get_attr_map: insert every string-valued name = value pair,
\* a later pair replacing an earlier one of the same name
InsertAll(nested, attr_map) ==
    IF nested = <<>> THEN attr_map
    ELSE LET meta == Head(nested)
         IN IF meta.kind = "namevalue" /\ meta.lit = "str"
            THEN InsertAll(Tail(nested),
                    [n \in DOMAIN attr_map \cup {meta.ident} |->
                        IF n = meta.ident THEN meta.value ELSE attr_map[n]])
            ELSE InsertAll(Tail(nested), attr_map)

EmptyMap == [n \in {} |-> ""]

get_attr_map(attr) ==
    IF attr.meta = "list"
    THEN Some([ident |-> attr.ident, map |-> InsertAll(attr.nested, EmptyMap)])
    ELSE None

RECURSIVE FindGraphql(_)
\* attrs.iter().filter_map(get_attr_map).find(|(name, _)| name == "graphql")
FindGraphql(attrs) ==
    IF attrs = <<>> THEN None
    ELSE LET r == get_attr_map(Head(attrs))
         IN IF r.some /\ r.val.ident = "graphql"
            THEN Some(r.val.map)
            ELSE FindGraphql(Tail(attrs))

\* map.get(key).map(|i| i.clone())
MapGet(map, key) == IF key \in DOMAIN map THEN Some(map[key]) ELSE None

(* --------------------------- to_camel_case ----------------------------- *)

ToUppercase(ch) ==
    CASE ch = "a" -> "A"
      [] ch = "b" -> "B"
      [] ch = "c" -> "C"
      [] ch = "x" -> "X"
      [] ch = "y" -> "Y"
      [] ch = "z" -> "Z"
      [] OTHER -> ch

RECURSIVE SplitUnderscore(_, _)
\* s.split('_'): the parts between underscores, empty parts included;
\* part is the part read so far
SplitUnderscore(s, part) ==
    IF s = <<>> THEN <<part>>
    ELSE IF Head(s) = "_"
         THEN <<part>> \o SplitUnderscore(Tail(s), <<>>)
         ELSE SplitUnderscore(Tail(s), Append(part, Head(s)))

RECURSIVE CamelParts(_, _, _)
\* the loop over s.split('_').enumerate(): part 0 is taken as it is, a later
\* non-empty part has its first character upper-cased, an empty part adds
\* nothing
CamelParts(parts, i, dest) ==
    IF parts = <<>> THEN dest
    ELSE LET part == Head(parts)
         IN IF i = 0
            THEN CamelParts(Tail(parts), i + 1, part)
            ELSE IF Len(part) >= 1
                 THEN CamelParts(Tail(parts), i + 1,
                         dest \o <<ToUppercase(Head(part))>> \o Tail(part))
                 ELSE CamelParts(Tail(parts), i + 1, dest)

to_camel_case(s) == CamelParts(SplitUnderscore(s, <<>>), 0, <<>>)

(* ------------------------- context resolution -------------------------- *)

RECURSIVE FirstBinding(_)
\* FirstContextBinding without the test of the binding's name
FirstBinding(args) ==
    IF args = <<>> THEN None
    ELSE IF Head(args).kind = "binding"
         THEN Some(Head(args).ty)
         ELSE FirstBinding(Tail(args))

RECURSIVE FirstContextBinding(_)
\* args.iter().filter_map(binding named Context).next().map(clone)
FirstContextBinding(args) ==
    IF args = <<>> THEN None
    ELSE LET arg == Head(args)
         IN IF arg.kind = "binding" /\ arg.ident = "Context"
            THEN Some(arg.ty)
            ELSE FirstContextBinding(Tail(args))

\* path.segments.iter_mut().last()
LastSegment(ty) == ty.segments[Len(ty.segments)]

\* the context of the self type's last segment, or None where the code panics
ResolveContext(ty) ==
    IF LastSegment(ty).arguments.kind = "angle"
    THEN FirstContextBinding(LastSegment(ty).arguments.args)
    ELSE None

\* StripArguments that leaves the arguments in place
KeepArguments(ty) == ty

\* segment.arguments = PathArguments::None, on the last segment
StripArguments(ty) ==
    [ty EXCEPT !.segments[Len(ty.segments)].arguments = NoArguments]

\* the type-level description: Option<Option<String>>
TypeDescription(attrs) ==
    LET found == FindGraphql(attrs)
    IN IF found.some THEN Some(MapGet(found.val, "description")) ELSE None

\* parse(quote!(&Executor<#context>))
ParsedExecutor(context) ==
    TypeReference("",
        TypePath(<<PathSegment("Executor",
                               AngleBracketed(<<GenericType(context)>>))>>))

(* --------------------------- member admission -------------------------- *)

\* the (description, deprecated) pair of a member's annotations
MemberDirectives(attrs) ==
    LET found == FindGraphql(attrs)
    IN IF found.some
       THEN [description |-> MapGet(found.val, "description"),
             deprecated |-> MapGet(found.val, "deprecated")]
       ELSE [description |-> None, deprecated |-> None]

\* match sig.decl.inputs[0]: the first parameter is captured and its type
\* is a reference equal to the parsed executor reference
FirstIsExecutor(inputs, parsed) ==
    /\ inputs[1].kind = "captured"
    /\ inputs[1].ty.kind = "reference"
    /\ inputs[1].ty = parsed

\* FnArgs collecting the parameters last to first
FnArgsReversed(inputs) ==
    [j \in 1..(Len(inputs) - 1) |->
        [pat |-> inputs[Len(inputs) + 1 - j].pat,
         ty |-> inputs[Len(inputs) + 1 - j].ty]]

\* for arg in sig.decl.inputs.iter().skip(1): (pat, ty) of each parameter
FnArgs(inputs) ==
    [j \in 1..(Len(inputs) - 1) |->
        [pat |-> inputs[j + 1].pat, ty |-> inputs[j + 1].ty]]

\* what the loop body does with one method once its annotations are read:
\* panic, continue (skip) or push a field
Admit(item, parsed) ==
    IF Len(item.inputs) = 0
    THEN [result |-> "panic", msg |-> MsgIndex]
    ELSE IF ~FirstIsExecutor(item.inputs, parsed)
    THEN [result |-> "skip", msg |-> ""]
    ELSE IF ~item.output.some
    THEN [result |-> "skip", msg |-> ""]
    ELSE IF \E j \in 2..Len(item.inputs) : item.inputs[j].kind # "captured"
    THEN [result |-> "panic", msg |-> MsgInvalidArg]
    ELSE [result |-> "field", msg |-> ""]

\* the tuple pushed onto fns
FieldOf(item) ==
    [name |-> item.ident,
     args |-> FnArgs(item.inputs),
     ret |-> item.output.val,
     description |-> MemberDirectives(item.attrs).description,
     deprecated |-> MemberDirectives(item.attrs).deprecated]

\* attrs.clear()
ClearAttrs(item) == [item EXCEPT !.attrs = <<>>]

(* ------------------------------ emission ------------------------------- *)

\* stringify!(#name): the identifiers of the path joined by ::
Stringify(segments) ==
    [i \in 1..(2 * Len(segments) - 1) |->
        IF i % 2 = 1 THEN segments[(i + 1) \div 2].ident ELSE "::"]

\* one `if field == ... { ... return ...; }` statement per field
exec_fns(fs) ==
    [k \in 1..Len(fs) |->
        [kind |-> "if",
         cond |-> to_camel_case(fs[k].name),
         get_args |-> [j \in 1..Len(fs[k].args) |->
                          [pat |-> fs[k].args[j].pat,
                           ty |-> fs[k].args[j].ty,
                           key |-> to_camel_case(fs[k].args[j].pat)]],
         call |-> fs[k].name,
         arg_names |-> [j \in 1..Len(fs[k].args) |-> fs[k].args[j].pat]]]

\* register_fns emitting the fields last to first
register_fns_reversed(fs) ==
    [k \in 1..Len(fs) |->
        LET f == fs[Len(fs) + 1 - k]
        IN [field |-> to_camel_case(f.name),
            ret |-> f.ret,
            args |-> [j \in 1..Len(f.args) |->
                         [ty |-> f.args[j].ty,
                          key |-> to_camel_case(f.args[j].pat)]],
            description |-> IF f.description.some
                            THEN Some(f.description) ELSE None,
            deprecation |-> IF f.deprecated.some
                            THEN Some(f.deprecated) ELSE None]]

\* one `fields.push(registry.field_convert(...) ...)` statement per field;
\* an absent description or deprecation leaves no clause
register_fns(fs) ==
    [k \in 1..Len(fs) |->
        [field |-> to_camel_case(fs[k].name),
         ret |-> fs[k].ret,
         args |-> [j \in 1..Len(fs[k].args) |->
                      [ty |-> fs[k].args[j].ty,
                       key |-> to_camel_case(fs[k].args[j].pat)]],
         description |-> IF fs[k].description.some
                         THEN Some(fs[k].description) ELSE None,
         deprecation |-> IF fs[k].deprecated.some
                         THEN Some(fs[k].deprecated) ELSE None]]

\* `mt = mt.description(#description);` is emitted when the outer Option is
\* Some; the inner Option is interpolated as its content, or as nothing
TypeDescriptionClause(desc) ==
    IF desc.some THEN Some(desc.val) ELSE None

\* panic!("Field {} not found on type {}", field, "Mutation")
TerminalPanic == [kind |-> "panic", ty |-> <<"Mutation">>]

\* the statements of the generated resolve_field
ResolveFieldBody(fs) == exec_fns(fs) \o <<TerminalPanic>>

\* the generated impl juniper::GraphQLType for #name
gql_impl(nm, ctx, desc, fs) ==
    [for |-> nm,
     Context |-> ctx,
     name |-> Stringify(nm),
     fields |-> register_fns(fs),
     description |-> TypeDescriptionClause(desc),
     resolve_field |-> ResolveFieldBody(fs),
     concrete_type_name |-> Stringify(nm)]

(* ------------------------ generated resolve_field ---------------------- *)

\* the argument bag the executor hands over for a validated query: it holds
\* every argument key registered for the requested field
ValidatedArguments(fields, field) ==
    UNION {{fields[k].args[j].key : j \in 1..Len(fields[k].args)} :
              k \in {n \in 1..Len(fields) : fields[n].field = field}}

RECURSIVE RunWithoutReturn(_, _, _)
\* RunResolveField whose taken branch does not return: every matching
\* branch invokes its member and the routine runs on to the panic
RunWithoutReturn(stmts, field, args) ==
    IF stmts = <<>>
    THEN [invoked |-> <<>>, passed |-> <<>>, outcome |-> "end", ty |-> <<>>]
    ELSE LET s == Head(stmts)
             rest == RunWithoutReturn(Tail(stmts), field, args)
         IN IF s.kind = "panic"
            THEN [invoked |-> <<>>, passed |-> <<>>,
                  outcome |-> MsgNotFound, ty |-> s.ty]
            ELSE IF field = s.cond
            THEN [rest EXCEPT !.invoked = <<s.call>> \o @,
                              !.passed = <<s.arg_names>> \o @]
            ELSE rest

RECURSIVE RunResolveField(_, _, _)
\* runs the statements in order; a taken branch extracts its arguments,
\* invokes its member and returns
RunResolveField(stmts, field, args) ==
    IF stmts = <<>>
    THEN [invoked |-> <<>>, passed |-> <<>>, outcome |-> "end", ty |-> <<>>]
    ELSE LET s == Head(stmts)
         IN IF s.kind = "panic"
            THEN [invoked |-> <<>>, passed |-> <<>>,
                  outcome |-> MsgNotFound, ty |-> s.ty]
            ELSE IF field = s.cond
            THEN IF \E j \in 1..Len(s.get_args) : s.get_args[j].key \notin args
                 THEN [invoked |-> <<>>, passed |-> <<>>,
                       outcome |-> MsgArgMissing, ty |-> <<>>]
                 ELSE [invoked |-> <<s.call>>, passed |-> <<s.arg_names>>,
                       outcome |-> "return", ty |-> <<>>]
            ELSE RunResolveField(Tail(stmts), field, args)

(* ------------------------------- inputs -------------------------------- *)

Ctx == Named("Ctx")

Other == Named("Other")

\* impl <self type>: not a path; no arguments; a Context binding; two
\* segments with a type argument and two bindings; a binding of another name
SelfTys ==
    { TypeTuple,
      TypePath(<<PathSegment("Query", NoArguments)>>),
      TypePath(<<PathSegment("Query", AngleBracketed(<<Binding("Context", Ctx)>>))>>),
      TypePath(<<PathSegment("Mutation", AngleBracketed(<<Binding("Context", Ctx)>>))>>),
      TypePath(<<PathSegment("m", NoArguments),
                 PathSegment("Query",
                    AngleBracketed(<<GenericType(Named("i32")),
                                     Binding("Context", Other),
                                     Binding("Context", Ctx)>>))>>),
      TypePath(<<PathSegment("Query", AngleBracketed(<<Binding("Item", Ctx)>>))>>) }

\* annotation lists of the impl block
TypeAttrs ==
    { <<>>,
      <<MetaList("graphql", <<NameValueStr("description", "d")>>)>>,
      <<MetaList("graphql", <<NameValueStr("context", "Other")>>)>>,
      <<MetaList("allow", <<NestedWord("unused")>>),
        MetaList("graphql", <<NameValueStr("description", "d"),
                              NameValueStr("context", "Ctx"),
                              NameValueStr("description", "e")>>)>> }

\* parameter names; y_z has a converted form that differs from it
ArgNames == << <<"x">>, <<"y", "_", "z">>, <<"w">> >>

\* MaxArgs captured parameters, named in turn from ArgNames
ForwardArgs ==
    [j \in 1..MaxArgs |->
        Captured(ArgNames[((j - 1) % Len(ArgNames)) + 1], Named("i32"))]

\* the parameter lists after the executor: ForwardArgs and its reverse
ArgSeqs ==
    { ForwardArgs, [j \in 1..MaxArgs |-> ForwardArgs[MaxArgs + 1 - j]] }

RetI32 == Some(Named("i32"))

Executor(ctx) == Captured(<<"e">>, ParsedExecutor(ctx))

\* members that are fields when the context is Ctx; a_b and aB share a
\* converted name
FieldMethods ==
    { Method(<<"a", "_", "b">>, <<>>, <<Executor(Ctx)>>, RetI32),
      Method(<<"a", "B">>,
             <<MetaList("graphql", <<NameValueStr("description", "d")>>)>>,
             <<Executor(Ctx)>>, RetI32) }
    \cup
    { Method(<<"c">>,
             <<MetaWord("inline"),
               MetaList("graphql", <<NameValueStr("deprecated", "x"),
                                     NameValueInt("description")>>)>>,
             <<Executor(Ctx)>> \o rest, RetI32) : rest \in ArgSeqs }

\* a &self helper, a member over another context, a member with no return
\* type, a member with no parameter, a member with a parameter that is not
\* captured, an associated constant
OtherItems ==
    { Method(<<"h">>, <<MetaWord("inline")>>, <<SelfRef>>, RetI32),
      Method(<<"o">>,
             <<MetaList("graphql", <<NameValueStr("description", "d")>>)>>,
             <<Executor(Other), Captured(<<"x">>, Named("i32"))>>, RetI32),
      Method(<<"n">>, <<>>, <<Executor(Ctx)>>, None),
      Method(<<"z">>, <<>>, <<>>, RetI32),
      Method(<<"c">>, <<>>, <<Executor(Ctx), Ignored(Named("i32"))>>, RetI32),
      ConstItem(<<"K">>) }

ItemPool == FieldMethods \cup OtherItems

ItemSeqs == UNION {[1..n -> ItemPool] : n \in 0..MaxItems}

Asts ==
    {ItemOther} \cup
    {ItemImpl(a, t, its) : a \in TypeAttrs, t \in SelfTys, its \in ItemSeqs}

\* the field names a query asks for
FieldNames == {<<"a", "B">>, <<"c">>, <<"o">>, <<"q">>}

(* ---------------------------- state machine ---------------------------- *)

VARIABLES
    ast,          \* the item handed to impl_gql_object
    pc,           \* "start", "loop", "done" or "panicked"
    self_ty,      \* mut self_ty
    name,         \* the path of the implementing type, once resolved
    context,      \* the context type, once resolved
    description,  \* the type-level description: Option<Option<String>>
    items,        \* mut items
    idx,          \* position of the for loop in items
    fns,          \* the fields collected so far
    output,       \* the returned token stream: the item and the generated impl
    panic,        \* the message of the panic that aborted the expansion
    rerun,        \* the input is the item of an earlier expansion
    call          \* the last call of the generated resolve_field

vars ==
    <<ast, pc, self_ty, name, context, description, items, idx, fns, output,
      panic, rerun, call>>

Start(a) ==
    /\ ast = a
    /\ pc = "start"
    /\ self_ty = a.self_ty
    /\ name = <<>>
    /\ context = None
    /\ description = None
    /\ items = a.items
    /\ idx = 1
    /\ fns = <<>>
    /\ output = None
    /\ panic = None
    /\ call = None

Init ==
    /\ \E a \in Asts : Start(a)
    /\ rerun = FALSE

Panic(msg) ==
    /\ pc' = "panicked"
    /\ panic' = Some(msg)

\* lines 41-97: destructure the item, resolve name and context, strip the
\* binding, read the type-level description
Resolve ==
    /\ pc = "start"
    /\ IF ast.kind # "impl"
       THEN /\ Panic(MsgNotImpl)
            /\ UNCHANGED <<self_ty, name, context, description>>
       ELSE IF self_ty.kind # "path"
       THEN /\ Panic(MsgNotPath)
            /\ UNCHANGED <<self_ty, name, context, description>>
       ELSE IF ~ResolveContext(self_ty).some
       THEN /\ Panic(MsgContext)
            /\ UNCHANGED <<self_ty, name, context, description>>
       ELSE /\ context' = ResolveContext(self_ty)
            /\ self_ty' = StripArguments(self_ty)
            /\ name' = StripArguments(self_ty).segments
            /\ description' = TypeDescription(ast.attrs)
            /\ pc' = "loop"
            /\ UNCHANGED panic
    /\ UNCHANGED <<ast, items, idx, fns, output, rerun, call>>

\* lines 101-150: one iteration of `for item in &mut items`
LoopItem ==
    /\ pc = "loop"
    /\ idx <= Len(items)
    /\ LET item == items[idx]
       IN IF item.kind # "method"
          THEN /\ Panic(MsgConst)
               /\ UNCHANGED <<items, idx, fns>>
          ELSE LET adm == Admit(item, ParsedExecutor(context.val))
               IN /\ items' = [items EXCEPT ![idx] = ClearAttrs(item)]
                  /\ IF adm.result = "panic"
                     THEN /\ Panic(adm.msg)
                          /\ UNCHANGED <<idx, fns>>
                     ELSE /\ idx' = idx + 1
                          /\ fns' = IF adm.result = "field"
                                    THEN Append(fns, FieldOf(item))
                                    ELSE fns
                          /\ UNCHANGED <<pc, panic>>
    /\ UNCHANGED <<ast, self_ty, name, context, description, output, rerun, call>>

\* lines 153-274: rebuild the item and emit the generated impl
Emit ==
    /\ pc = "loop"
    /\ idx > Len(items)
    /\ output' = Some([item |-> ItemImpl(<<>>, self_ty, items),
                       gql_impl |-> gql_impl(name, context.val, description, fns)])
    /\ pc' = "done"
    /\ UNCHANGED <<ast, self_ty, name, context, description, items, idx, fns,
                   panic, rerun, call>>

\* a query resolves a field through the generated resolve_field
ResolveField ==
    /\ pc = "done"
    /\ \E field \in FieldNames :
          LET g == output.val.gql_impl
              r == RunResolveField(g.resolve_field, field,
                                   ValidatedArguments(g.fields, field))
          IN call' = Some([field |-> field, invoked |-> r.invoked,
                           passed |-> r.passed, outcome |-> r.outcome,
                           ty |-> r.ty])
    /\ UNCHANGED <<ast, pc, self_ty, name, context, description, items, idx,
                   fns, output, panic, rerun>>

\* the attribute is applied again, to the item an expansion returned
Rerun ==
    /\ pc = "done"
    /\ ast' = output.val.item
    /\ pc' = "start"
    /\ self_ty' = output.val.item.self_ty
    /\ name' = <<>>
    /\ context' = None
    /\ description' = None
    /\ items' = output.val.item.items
    /\ idx' = 1
    /\ fns' = <<>>
    /\ output' = None
    /\ panic' = None
    /\ call' = None
    /\ rerun' = TRUE

Next ==
    \/ Resolve
    \/ LoopItem
    \/ Emit
    \/ ResolveField
    \/ Rerun

Spec == Init /\ [][Next]_vars

(* ------------------------------ properties ----------------------------- *)

Min(S) == CHOOSE x \in S : \A y \in S : x <= y

\* the generic arguments written on the last segment of the input self type
DeclaredArgs ==
    LET segs == ast.self_ty.segments
    IN IF segs[Len(segs)].arguments.kind = "angle"
       THEN segs[Len(segs)].arguments.args
       ELSE <<>>

\* positions of the bindings named Context among them
ContextBindings ==
    {j \in 1..Len(DeclaredArgs) :
        DeclaredArgs[j].kind = "binding" /\ DeclaredArgs[j].ident = "Context"}

\* the impl block has a path as self type and context resolution has run
Resolved == ast.kind = "impl" /\ ast.self_ty.kind = "path" /\ pc # "start"

\* the type-level directive map has a `context` key
HasContextDirective ==
    /\ FindGraphql(ast.attrs).some
    /\ "context" \in DOMAIN FindGraphql(ast.attrs).val

ExecutorRefOf(ctx) ==
    [kind |-> "reference", lifetime |-> "",
     segments |-> <<[ident |-> "Executor",
                     arguments |-> [kind |-> "angle",
                                    args |-> <<[kind |-> "type", ident |-> "",
                                                ty |-> ctx]>>]]>>]

\* a member that is to become a field: a method with a first parameter of
\* the executor-reference type and an explicit return type
IsFieldMember(m) ==
    /\ m.kind = "method"
    /\ Len(m.inputs) >= 1
    /\ m.inputs[1].kind = "captured"
    /\ m.inputs[1].ty = ExecutorRefOf(context.val)
    /\ m.output.some

\* a method that is not to become a field
NonField(m) == m.kind = "method" /\ ~IsFieldMember(m)

\* the members of the input block that are fields, in declaration order
FieldMembers == SelectSeq(ast.items, IsFieldMember)

\* the parameters a member declares after the first
DeclaredParams(m) == [j \in 1..(Len(m.inputs) - 1) |-> m.inputs[j + 1]]

\* C2 (as claimed): a method with no parameter, or whose first parameter is
\* not the executor reference, or with no return type, is skipped: the
\* expansion does not fail at it, and it adds neither a registered field nor
\* a dispatch branch.
C2_NonFieldIsSkipped ==
    (ast.kind = "impl" /\ context.some) =>
        /\ \A k \in 1..Len(ast.items) :
              NonField(ast.items[k]) => ~(pc = "panicked" /\ idx = k)
        /\ pc = "done" =>
              /\ Len(output.val.gql_impl.fields) = Len(FieldMembers)
              /\ Len(output.val.gql_impl.resolve_field) = Len(FieldMembers) + 1

\* C3 (as claimed): every member that is not accepted as a field is in the
\* emitted impl block exactly as it was written, annotations included.
C3_SkippedUnmodified ==
    pc = "done" =>
        \A k \in 1..Len(ast.items) :
            ~IsFieldMember(ast.items[k]) =>
                output.val.item.items[k] = ast.items[k]

\* the field members whose converted name is the requested one
Matches(field) ==
    {k \in 1..Len(FieldMembers) : to_camel_case(FieldMembers[k].ident) = field}

\* C4: a call of the generated resolve_field invokes the first field member,
\* in declaration order, whose converted name is the requested name, and no
\* other member; with no such member it invokes none and ends in the
\* terminal panic.
C4_FirstMatchWins ==
    call.some =>
        IF Matches(call.val.field) = {}
        THEN /\ call.val.invoked = <<>>
             /\ call.val.outcome = MsgNotFound
        ELSE LET m == FieldMembers[Min(Matches(call.val.field))]
             IN /\ call.val.invoked = <<m.ident>>
                /\ call.val.outcome = "return"
                /\ call.val.passed =
                      <<[j \in 1..(Len(m.inputs) - 1) |-> m.inputs[j + 1].pat]>>

\* two members of different identifiers convert to the requested name and
\* the earlier one was invoked
C4_Witness ==
    /\ call.some
    /\ Cardinality(Matches(call.val.field)) >= 2
    /\ \E k \in Matches(call.val.field) :
          FieldMembers[k].ident # FieldMembers[Min(Matches(call.val.field))].ident
    /\ call.val.outcome = "return"

\* C5 (as claimed): every emitted field name is the converted identifier of
\* its member, and in a block whose members have pairwise distinct
\* identifiers no two emitted field names are equal.
C5_FieldNamesDistinct ==
    pc = "done" =>
        LET fields == output.val.gql_impl.fields
        IN /\ \A k \in 1..Len(fields) :
                 fields[k].field = to_camel_case(fns[k].name)
           /\ (\A j, k \in 1..Len(ast.items) :
                  j # k => ast.items[j].ident # ast.items[k].ident)
              => \A j, k \in 1..Len(fields) :
                    j # k => fields[j].field # fields[k].field

\* C6: the registered fields and the dispatch branches are the field
\* members in declaration order, one each, and the terminal panic is the
\* last statement of resolve_field.
C6_EmissionOrder ==
    pc = "done" =>
        LET g == output.val.gql_impl
            n == Len(FieldMembers)
        IN /\ Len(g.fields) = n
           /\ Len(g.resolve_field) = n + 1
           /\ g.resolve_field[n + 1].kind = "panic"
           /\ \A k \in 1..n :
                 /\ g.fields[k].field = to_camel_case(FieldMembers[k].ident)
                 /\ g.fields[k].ret = FieldMembers[k].output.val
                 /\ Len(g.fields[k].args) = Len(FieldMembers[k].inputs) - 1
                 /\ g.resolve_field[k].kind = "if"
                 /\ g.resolve_field[k].cond = g.fields[k].field
                 /\ g.resolve_field[k].call = FieldMembers[k].ident

\* two fields of different names were emitted and a skipped member stands
\* before the last of them
C6_Witness ==
    /\ pc = "done"
    /\ Len(FieldMembers) = 2
    /\ output.val.gql_impl.fields[1].field # output.val.gql_impl.fields[2].field
    /\ \E k \in 1..(Len(ast.items) - 1) : NonField(ast.items[k])

\* C7: for every field member the registered arguments, the extracted
\* arguments and the values handed to the member are the parameters the
\* member declares after the first, in that order, none lost or repeated.
C7_ArgumentOrder ==
    pc = "done" =>
        LET g == output.val.gql_impl
        IN /\ Len(g.fields) = Len(FieldMembers)
           /\ \A k \in 1..Len(FieldMembers) :
                 LET declared == DeclaredParams(FieldMembers[k])
                 IN /\ g.fields[k].args =
                          [j \in 1..Len(declared) |->
                              [ty |-> declared[j].ty,
                               key |-> to_camel_case(declared[j].pat)]]
                    /\ g.resolve_field[k].get_args =
                          [j \in 1..Len(declared) |->
                              [pat |-> declared[j].pat,
                               ty |-> declared[j].ty,
                               key |-> to_camel_case(declared[j].pat)]]
                    /\ g.resolve_field[k].arg_names =
                          [j \in 1..Len(declared) |-> declared[j].pat]
           /\ (call.some /\ call.val.outcome = "return") =>
                 \E k \in 1..Len(FieldMembers) :
                    /\ call.val.invoked = <<FieldMembers[k].ident>>
                    /\ call.val.passed =
                          <<[j \in 1..Len(DeclaredParams(FieldMembers[k])) |->
                                DeclaredParams(FieldMembers[k])[j].pat]>>

\* a field with two parameters of different names after the executor was
\* emitted and invoked
C7_Witness ==
    /\ pc = "done"
    /\ call.some
    /\ call.val.outcome = "return"
    /\ Len(call.val.passed[1]) >= 2
    /\ call.val.passed[1][1] # call.val.passed[1][2]

\* C8 (as claimed): an expansion of an already emitted impl block
\* completes, returns that block unchanged and extracts no description or
\* deprecation.
C8_RerunIsNoop ==
    rerun =>
        /\ pc # "panicked"
        /\ pc = "done" =>
              /\ output.val.item = ast
              /\ \A k \in 1..Len(fns) :
                    ~fns[k].description.some /\ ~fns[k].deprecated.some

\* C8 (amended): an expansion of an already emitted impl block never gets
\* past context resolution: it panics with the context-required message,
\* reads no member and collects no field.
C8_RerunFails ==
    rerun =>
        /\ pc \in {"start", "panicked"}
        /\ pc = "panicked" => panic = Some(MsgContext)
        /\ fns = <<>>
        /\ items = ast.items
        /\ output = None

\* the second expansion of a block with members has panicked
C8_Witness ==
    /\ rerun
    /\ pc = "panicked"
    /\ Len(ast.items) >= 1

\* C9 (as claimed): the type-level description clause is emitted exactly
\* when the type-level directive map has a `description` entry, and then
\* carries that string.
C9_DescriptionClause ==
    pc = "done" =>
        LET found == FindGraphql(ast.attrs)
            has == found.some /\ "description" \in DOMAIN found.val
            clause == output.val.gql_impl.description
        IN /\ clause.some <=> has
           /\ has => clause = Some(Some(found.val["description"]))

\* C10 (as claimed): the terminal panic of resolve_field names the type the
\* impl block is for, the name the generated name() returns.
C10_PanicNamesType ==
    (call.some /\ call.val.outcome = MsgNotFound) =>
        call.val.ty = output.val.gql_impl.name

====
